---- MODULE Spec2Model ----
(***************************************************************************)
(* A model of the kernel-capsule-process interaction of the Tock kernel:   *)
(* the Grant allocator, the driver dispatch protocol as implemented by the *)
(* read-only-syscall driver (kernel/src/ros.rs) and the BLE advertising    *)
(* driver (chips/nrf5x/src/ble_advertising_driver.rs), the board's driver  *)
(* table, and the deferred-call registry with the VirtIO RNG as client.    *)
(***************************************************************************)
EXTENDS Integers, Naturals, Sequences, FiniteSets, TLC

VARIABLES
    \* ---- processes and grants
    alive,        \* alive[p]: the process still exists
    memFree,      \* memFree[p]: free process memory, in grant-sized units
    granted,      \* granted[c][p]: capsule c's grant is materialized in p
    active,       \* active[c][p]: number of enter closures of c running on p
    \* ---- the kernel as a whole
    ops,          \* number of entry points invoked so far
    panicked,     \* the kernel has panicked
    call,         \* the entry point invoked last
    ret,          \* what it returned
    \* ---- ROSDriver
    count,        \* ROSDriver.count
    mem_region,   \* mem_region[p]: the buffer held in p's ROS grant
    userBufs,     \* userBufs[p]: the buffers the process holds
    bufData,      \* bufData[p][b]: the bytes of buffer b of process p
    lastStored,   \* lastStored[p]: buffer passed by p's last successful allow
    \* ---- BLE
    app,          \* app[p]: the App in p's BLE grant
    busy,         \* BLE.busy
    alarm,        \* the value the underlying alarm is set to
    pc,           \* where the running BLE handler is
    raa,          \* the locals of the running reset_active_alarm
    nested,       \* the last enter attempted by reset_active_alarm
    started,      \* started[p]: a start command of p succeeded, no stop since
    sender,       \* BLE.sending_app, BLE.receiving_app, and the processes the
                  \* last firing of the alarm started a transmission for
    \* ---- deferred calls and VirtIORng
    dcPending,    \* dcPending[h]: the pending flag of handle h
    scan,         \* the scan pass of the registry
    calling,      \* the handle whose client's call is about to run (0: none)
    fired,        \* fired[h]: calls of h's client in the current pass
    rearmed,      \* handles set by their own client inside its call, this pass
    owed,         \* handles so set in the pass before
    cont,         \* what the RNG client answered to the last callback
    rng,          \* the fields of VirtIORng
    vq,           \* the virtqueue: buffers offered, buffers used, callbacks
    fills,        \* buffers the device has filled so far
    rngLast,      \* the operation of VirtIORng called last, and its result
    \* ---- memory protection
    mpuEnabled,   \* memory protection is enforced
    mpuRegions,   \* mpuRegions[n]: the region installed in slot n, if any
    mpuLast,      \* the operation of the MPU called last, and its result
    \* ---- rubble time types
    tm,           \* the Instant conversion made last: raw ticks, Instant, ticks
    dur,          \* the Duration made last and what was read from it
    \* ---- USB CDC
    cdc,          \* the TX fields of Cdc
    cdcHist       \* the buffers the UART client holds, the call made last and
                  \* its result, and the packets and callbacks of the transfer

procVars == <<alive, memFree, granted, active>>
rosVars == <<count, mem_region, userBufs, bufData, lastStored>>
bleVars == <<app, busy, alarm, pc, raa, nested, started, sender>>
dcVars == <<dcPending, scan, calling, fired, rearmed, owed, cont, rng, vq, fills, rngLast>>
mpuVars == <<mpuEnabled, mpuRegions, mpuLast>>
rubbleVars == <<tm, dur>>
cdcVars == <<cdc, cdcHist>>
vars == <<alive, memFree, granted, active, ops, panicked, call, ret,
          count, mem_region, userBufs, bufData, lastStored,
          app, busy, alarm, pc, raa, nested, started, sender,
          dcPending, scan, calling, fired, rearmed, owed, cont, rng, vq, fills, rngLast,
          mpuEnabled, mpuRegions, mpuLast, tm, dur, cdc, cdcHist>>

\* ------------------------------------------------------------------ bounds
NumProcs == 2
MaxMem == 3
NumBufs == 2
\* How many entry points a behaviour invokes: of the whole system, of the
\* ROS driver alone, of the BLE driver alone.
MaxOps == 3
MaxRosOps == 4
MaxBleOps == 4
NumSlots == 2
MaxQueue == 2
MaxFills == 3
MaxRegionNum == 3
MaxAlarmOps == 6
MaxBufLen == 17
MaxLayoutOps == 2
MaxRawTick == 520
MaxAmount == 24
MaxTxBufLen == 130

Procs == 1..NumProcs
Capsules == {"ble", "ros"}
\* The inputs the entry points are tried with
PendingVals == {2}
TxPowers == {5, 11}
RadioCodes == {"SUCCESS"}
Allows == {<<9, 29>>, <<49, 4>>, <<50, 39>>, <<50, 6>>, <<11, 4>>}
BufLens == {2, 8}
Answers == {"Done", "More"}
DriverNums == {1, 65537, 196608}

\* The buffers of a process: 0 is the default (empty) buffer a fresh grant
\* holds, 1..NumBufs are ranges of the process's memory.
BufIds == 0..NumBufs
BufLen(b) == IF b = 0 THEN 0 ELSE IF b = 1 THEN 16 ELSE 7
NoBuf == -1

\* ------------------------------------------------------------------ Grant
\* sizeof(T) of the per-process state of each capsule, in units.
GrantSize(c) == IF c = "ble" THEN 2 ELSE 1

\* The outcome of Grant::enter(p, closure) for capsule c, given the number
\* of closures of c already running on p.
EnterResult(c, p, act) ==
    IF ~alive[p] THEN "NoSuchApp"
    ELSE IF act > 0 THEN "AlreadyInUse"
    ELSE IF ~granted[c][p] /\ memFree[p] < GrantSize(c) THEN "OutOfMemory"
    ELSE "Ok"

\* Grant materialization on a successful first enter.
GrantedAfter(c, p, res) ==
    IF res = "Ok" THEN [granted EXCEPT ![c][p] = TRUE] ELSE granted

MemFreeAfter(c, p, res) ==
    IF res = "Ok" /\ ~granted[c][p]
    THEN [memFree EXCEPT ![p] = @ - GrantSize(c)]
    ELSE memFree

\* From<procs::Error> for the numeric return code.
ErrInto(e) ==
    IF e = "OutOfMemory" THEN "ENOMEM"
    ELSE IF e = "AlreadyInUse" THEN "EBUSY"
    ELSE "EINVAL"

\* ------------------------------------------------------------------ u32
\* A u32 is the pair <<high 16 bits, low 16 bits>>.
Half == 65536
U32Of(n) == <<(n \div Half) % Half, n % Half>>
U32Max == <<Half - 1, Half - 1>>
U32Zero == <<0, 0>>

wrapping_add(a, b) ==
    LET lo == a[2] + b[2]
    IN <<(a[1] + b[1] + (lo \div Half)) % Half, lo % Half>>

wrapping_sub(a, b) ==
    LET borrow == IF a[2] < b[2] THEN 1 ELSE 0
    IN <<(a[1] - b[1] - borrow + 2 * Half) % Half, (a[2] - b[2] + Half) % Half>>

U32Lt(a, b) == a[1] < b[1] \/ (a[1] = b[1] /\ a[2] < b[2])
U32Mod10(a) == (((a[1] % 10) * (Half % 10)) + (a[2] % 10)) % 10

RECURSIVE XorBits(_, _, _)
XorBits(a, b, n) ==
    IF n = 0 THEN 0
    ELSE (((a % 2) + (b % 2)) % 2) + 2 * XorBits(a \div 2, b \div 2, n - 1)

U32Xor(a, b) == <<XorBits(a[1], b[1], 16), XorBits(a[2], b[2], 16)>>
\* x << k and x >> k for 0 < k < 16, and x >> k for 16 <= k < 32
U32Shl(a, k) == <<((a[1] % (2 ^ (16 - k))) * (2 ^ k)) + (a[2] \div (2 ^ (16 - k))),
                  (a[2] % (2 ^ (16 - k))) * (2 ^ k)>>
U32ShrWide(a, k) == <<0, a[1] \div (2 ^ (k - 16))>>

\* to_le_bytes of a u32, zero-extended to n >= 4 bytes
U32Le(a, n) ==
    [i \in 1..n |-> IF i = 1 THEN a[2] % 256 ELSE IF i = 2 THEN a[2] \div 256
                    ELSE IF i = 3 THEN a[1] % 256 ELSE IF i = 4 THEN a[1] \div 256
                    ELSE 0]

NowVals == {U32Zero, U32Max}

\* Values of ROSDriver.count: 0, 0x01020304 and u32::MAX
CountVals == {U32Zero, <<258, 772>>, U32Max}

\* ------------------------------------------------------------------ helpers

Min(x, y) == IF x < y THEN x ELSE y
Max(x, y) == IF x > y THEN x ELSE y

\* buf[from+1 .. from+Len(bytes)] := bytes   (copy_from_slice)
CopyInto(buf, from, bytes) ==
    [i \in 1..Len(buf) |->
        IF i > from /\ i <= from + Len(bytes) THEN bytes[i - from] ELSE buf[i]]

\* No handler is running: the kernel is ready to run an entry point.
Idle == ~panicked /\ pc = "idle" /\ call.verb = "none"

Called(verb, num, p) == [verb |-> verb, num |-> num, p |-> p]

Returned(code, buf, enter) == [code |-> code, buf |-> buf, enter |-> enter]

\* ------------------------------------------------------------------ ROSDriver
\* Faulty variant: the time is written, cut short, into a buffer of 12 bytes.
UpdateValuesWriteTimeAt12(buf, cnt, pending_tasks, t) ==
    LET b1 == IF Len(buf) >= 4 THEN CopyInto(buf, 0, U32Le(cnt, 4)) ELSE buf
        b2 == IF Len(b1) >= 8 THEN CopyInto(b1, 4, U32Le(U32Of(pending_tasks), 4)) ELSE b1
        b3 == IF Len(b2) >= 12 THEN CopyInto(b2, 8, U32Le(t, 8)) ELSE b2
    IN b3

\* The closure of update_values: what it writes into the allowed buffer.
UpdateValuesWrite(buf, cnt, pending_tasks, t) ==
    LET b1 == IF Len(buf) >= 4 THEN CopyInto(buf, 0, U32Le(cnt, 4)) ELSE buf
        b2 == IF Len(b1) >= 8 THEN CopyInto(b1, 4, U32Le(U32Of(pending_tasks), 4)) ELSE b1
        b3 == IF Len(b2) >= 16 THEN CopyInto(b2, 8, U32Le(t, 8)) ELSE b2
    IN b3

update_values(appid, pending_tasks, t) ==
    /\ Idle
    /\ LET res == EnterResult("ros", appid, active["ros"][appid])
           b == mem_region[appid]
       IN /\ granted' = GrantedAfter("ros", appid, res)
          /\ memFree' = MemFreeAfter("ros", appid, res)
          /\ IF res = "Ok"
             THEN /\ bufData' = [bufData EXCEPT ![appid][b] =
                          UpdateValuesWrite(@, count, pending_tasks, t)]
                  /\ count' = wrapping_add(count, U32Of(1))
                  /\ panicked' = FALSE
                  /\ ret' = Returned("SUCCESS", NoBuf, res)
             ELSE \* enter(..).unwrap() on an Err
                  /\ panicked' = TRUE
                  /\ ret' = Returned("PANIC", NoBuf, res)
                  /\ UNCHANGED <<bufData, count>>
    /\ call' = Called("ros_update_values", 0, appid)
    /\ ops' = ops + 1
    /\ UNCHANGED <<alive, active, mem_region, userBufs, lastStored, bleVars>>

\* Faulty variant: the slice is stored without being exchanged.
SwapKeepsBoth(region, slice) == [mem_region |-> slice, slice |-> slice]

\* Faulty variant: the buffer held before is dropped, the default returned.
SwapDropsOld(region, slice) == [mem_region |-> slice, slice |-> 0]

\* core::mem::swap(&mut data.mem_region, &mut slice)
Swap(region, slice) == [mem_region |-> slice, slice |-> region]

\* Faulty variant: allow number 1 taken for the shared region too.
RosAllowNumOffByOne(which) == which <= 1

\* if which == 0
RosAllowNum(which) == which = 0

\* Faulty variant: the swap is done even though the grant was not entered.
SliceAfterEnterSwapsAlways(res, region, slice) == Swap(region, slice).slice

\* The local `slice` after self.apps.enter: the closure swapped it with the
\* grant's buffer if it ran, and it is the buffer passed in if enter failed.
SliceAfterEnter(res, region, slice) ==
    IF res = "Ok" THEN Swap(region, slice).slice ELSE slice

allow_shared(appid, which, slice) ==
    /\ Idle
    /\ alive[appid]
    /\ slice \in userBufs[appid]
    /\ IF RosAllowNum(which)
       THEN LET res == EnterResult("ros", appid, active["ros"][appid])
                sw == Swap(mem_region[appid], slice)
            IN /\ granted' = GrantedAfter("ros", appid, res)
               /\ memFree' = MemFreeAfter("ros", appid, res)
               /\ IF res = "Ok"
                  THEN /\ mem_region' = [mem_region EXCEPT ![appid] = sw.mem_region]
                       /\ userBufs' = [userBufs EXCEPT ![appid] =
                                         (@ \ {slice}) \cup {sw.slice}]
                       /\ lastStored' = [lastStored EXCEPT ![appid] = slice]
                       /\ ret' = Returned("SUCCESS",
                                         SliceAfterEnter(res, mem_region[appid], slice),
                                         res)
                  ELSE /\ ret' = Returned(ErrInto(res),
                                         SliceAfterEnter(res, mem_region[appid], slice),
                                         res)
                       /\ UNCHANGED <<mem_region, userBufs, lastStored>>
       ELSE /\ ret' = Returned("ENOSUPPORT", slice, "None")
            /\ UNCHANGED <<granted, memFree, mem_region, userBufs, lastStored>>
    /\ call' = Called("ros_allow", which, appid)
    /\ ops' = ops + 1
    /\ UNCHANGED <<alive, active, panicked, count, bufData, bleVars>>

ros_command(command_number, appid) ==
    /\ Idle
    /\ alive[appid]
    /\ ret' = Returned(IF command_number = 0 THEN "SUCCESS" ELSE "ENOSUPPORT", NoBuf, "None")
    /\ call' = Called("ros_command", command_number, appid)
    /\ ops' = ops + 1
    /\ UNCHANGED <<procVars, panicked, rosVars, bleVars>>

allocate_grant(processid) ==
    /\ Idle
    /\ LET res == EnterResult("ros", processid, active["ros"][processid])
       IN /\ granted' = GrantedAfter("ros", processid, res)
          /\ memFree' = MemFreeAfter("ros", processid, res)
          /\ ret' = Returned(IF res = "Ok" THEN "SUCCESS" ELSE res, NoBuf, res)
    /\ call' = Called("ros_allocate_grant", 0, processid)
    /\ ops' = ops + 1
    /\ UNCHANGED <<alive, active, panicked, rosVars, bleVars>>


\* ------------------------------------------------------------------ BLE: App
\* Option<T> is a sequence of at most one element.
None == <<>>
Some(x) == <<x>>

PACKET_START == 0
PACKET_HDR_PDU == 0
PACKET_HDR_LEN == 1
PACKET_ADDR_START == 2
PACKET_PAYLOAD_START == 8
PACKET_LENGTH == 39
AdvertisingChannel37 == 37
ConnectUndirected == 0
\* A::Frequency: the 32 kHz clock of the nrf5x RTC
Frequency == 32768

DefaultApp ==
    [advertising_address |-> None,
     advertisement_buf |-> None,
     app_write |-> None,
     app_read |-> None,
     scan_callback |-> FALSE,
     idx |-> PACKET_PAYLOAD_START,
     process_status |-> "NotInitialized",
     advertisement_interval_ms |-> 200,
     scan_timeout_ms |-> 100,
     alarm_data |-> [t0 |-> U32Zero, expiration |-> None],
     tx_power |-> 0,
     state |-> None,
     channel |-> None,
     random_nonce |-> <<57005, 48879>>]

\* What a closure on an App yields: the App after it, the code it returns,
\* and whether it panicked (an index out of the bounds of a slice).
Out(a, code) == [a |-> a, code |-> code, panic |-> FALSE, raa |-> FALSE]
Panic(a) == [a |-> a, code |-> "PANIC", panic |-> TRUE, raa |-> FALSE]

\* data[from..to] := 0
ZeroRange(data, from, to) ==
    [i \in 1..Len(data) |-> IF i > from /\ i <= to THEN 0 ELSE data[i]]

SetByte(data, i, v) == [data EXCEPT ![i + 1] = v]

initialize_advertisement_buffer(a) ==
    IF a.advertisement_buf = None THEN Out(a, "EINVAL")
    ELSE IF Len(a.advertisement_buf[1]) < PACKET_LENGTH THEN Panic(a)
    ELSE Out([a EXCEPT !.advertisement_buf =
                 Some(ZeroRange(@[1], PACKET_START, PACKET_LENGTH))], "SUCCESS")

\* ((appid.idx() << 16) as u8 & 0xff) and ((appid.idx() << 24) as u8 & 0xff)
RandomAddress(appid) ==
    <<240, 15, 15, ((appid * 65536) % 256) % 256, ((appid * 16777216) % 256) % 256, 240>>

generate_random_address(a, appid) ==
    LET addr == RandomAddress(appid)
        a1 == [a EXCEPT !.advertising_address = Some(addr)]
    IN IF a1.advertisement_buf = None THEN Out(a1, "ESIZE")
       ELSE IF Len(a1.advertisement_buf[1]) < PACKET_ADDR_START + 6 THEN Panic(a1)
       ELSE Out([a1 EXCEPT !.advertisement_buf =
                    Some(CopyInto(SetByte(@[1], PACKET_HDR_LEN, 6), PACKET_ADDR_START, addr))],
                "SUCCESS")

reset_payload(a) ==
    IF a.process_status \in {"Advertising", "Scanning"} THEN Out(a, "EBUSY")
    ELSE IF a.advertisement_buf = None THEN Out(a, "EINVAL")
    ELSE IF Len(a.advertisement_buf[1]) < PACKET_LENGTH THEN Panic(a)
    ELSE Out([a EXCEPT !.advertisement_buf =
                         Some(ZeroRange(@[1], PACKET_PAYLOAD_START, PACKET_LENGTH)),
                       !.idx = PACKET_PAYLOAD_START], "SUCCESS")

configure_advertisement_pdu(a) ==
    IF a.advertisement_buf = None THEN Out(a, "ESIZE")
    ELSE IF Len(a.advertisement_buf[1]) < 1 THEN Panic(a)
    ELSE Out([a EXCEPT !.advertisement_buf =
                 Some(SetByte(@[1], PACKET_HDR_PDU, 64 + ConnectUndirected))], "SUCCESS")

\* app_write holds the slice just allowed; it is taken out whatever happens.
\* Faulty variant: only the start of the entry is held against the packet.
EndFitsStartOnly(idx, len) == idx <= PACKET_LENGTH

\* let end = idx + slice.len() + 2; if end <= PACKET_LENGTH
EndFits(idx, len) == idx + len + 2 <= PACKET_LENGTH

set_gap_data(a, gap_type) ==
    LET a1 == [a EXCEPT !.app_write = None]
    IN IF a.app_write = None THEN Out(a1, "EINVAL")
       ELSE LET slice == a.app_write[1]
                idx == a.idx
                end == idx + Len(slice) + 2
            IN IF EndFits(idx, Len(slice))
               THEN IF a.advertisement_buf = None THEN Out(a1, "EINVAL")
                    ELSE IF Len(a.advertisement_buf[1]) < end THEN Panic(a1)
                    ELSE Out([a1 EXCEPT
                                !.advertisement_buf = Some(CopyInto(
                                    SetByte(SetByte(SetByte(@[1], idx, (Len(slice) + 1) % 256),
                                                    idx + 1, gap_type % 256),
                                            PACKET_HDR_LEN, (end - 2) % 256),
                                    idx + 2, slice)),
                                !.idx = end], "SUCCESS")
               ELSE Out(a1, "ESIZE")

\* Xorshift on the 32-bit random_nonce
random_nonce(x) ==
    LET x1 == U32Xor(x, U32Shl(x, 13))
        x2 == U32Xor(x1, U32ShrWide(x1, 17))
    IN U32Xor(x2, U32Shl(x2, 5))

set_next_alarm(a, t) ==
    LET nonce == random_nonce(a.random_nonce)
        period_ms == ((a.advertisement_interval_ms + U32Mod10(nonce)) * Frequency) \div 1000
    IN [a EXCEPT !.alarm_data = [t0 |-> t, expiration |-> Some(wrapping_add(t, U32Of(period_ms)))],
                 !.random_nonce = nonce]

\* ------------------------------------------------------------------ BLE: driver
RaaIdle == [i |-> 0, next_alarm |-> U32Max, next_dist |-> U32Max, now |-> U32Zero,
            inner |-> 0, outer |-> 0, code |-> "None"]
NoNested == [p |-> 0, res |-> "None", wasActive |-> FALSE]

\* Faulty variant: a failed enter reported as success.
EnterOrErrSuccess(res, code) == IF res = "Ok" THEN code ELSE "SUCCESS"

\* .enter(appid, closure).unwrap_or_else(|err| err.into())
EnterOrErr(res, code) == IF res = "Ok" THEN code ELSE ErrInto(res)

\* Faulty variant: a start accepted in every status but NotInitialized.
MayStartNotInitializedOnly(a) == a.process_status # "NotInitialized"

\* The guard of the two start commands: if let Some(Initialized) = status
MayStart(a) == a.process_status = "Initialized"

\* The closures of command 0..6 up to (and without) reset_active_alarm;
\* raa tells that the closure goes on to call reset_active_alarm.
CommandClosure(command_num, a, appid, data, t, radio) ==
    CASE command_num = 0 ->
            IF MayStart(a)
            THEN [Out(set_next_alarm([a EXCEPT !.process_status = "Advertising",
                                               !.channel = Some(AdvertisingChannel37),
                                               !.random_nonce = t], t), "SUCCESS")
                  EXCEPT !.raa = TRUE]
            ELSE Out(a, "EBUSY")
      [] command_num = 1 ->
            IF a.process_status \in {"Advertising", "Scanning"}
            THEN Out([a EXCEPT !.process_status = "Initialized"], "SUCCESS")
            ELSE Out(a, "EBUSY")
      [] command_num = 2 ->
            IF a.process_status # "Scanning" /\ a.process_status # "Advertising"
            THEN LET e == data % 256
                 IN IF e <= 10 \/ e >= 236
                    THEN Out([a EXCEPT !.tx_power = e], radio)
                    ELSE Out(a, "EINVAL")
            ELSE Out(a, "EBUSY")
      [] command_num = 3 ->
            IF busy = appid
            THEN Out(a, "EBUSY")
            ELSE Out([a EXCEPT !.advertisement_interval_ms =
                         Max(20, Min(10240, 280))], "SUCCESS")
      [] command_num = 4 -> reset_payload(a)
      [] command_num = 5 ->
            IF MayStart(a)
            THEN [Out(set_next_alarm([a EXCEPT !.process_status = "Scanning",
                                               !.channel = Some(AdvertisingChannel37)], t),
                      "SUCCESS")
                  EXCEPT !.raa = TRUE]
            ELSE Out(a, "EBUSY")
      [] command_num = 6 ->
            IF a.process_status = "Initialized"
            THEN LET g == generate_random_address(a, appid)
                 IN IF g.panic THEN g
                    ELSE IF g.code = "SUCCESS" THEN configure_advertisement_pdu(g.a)
                    ELSE g
            ELSE Out(a, "EINVAL")

CommandNums == 0..6

\* The state of p's grant as the closure finds it: Default on first use.
AppOf(p) == IF granted["ble"][p] THEN app[p] ELSE DefaultApp

\* An entry point of the BLE driver that enters appid's grant and runs
\* closure result `out` (computed on AppOf(appid)) in it.
BleEnter(appid, verb, num, res, out, t) ==
    /\ granted' = GrantedAfter("ble", appid, res)
    /\ memFree' = MemFreeAfter("ble", appid, res)
    /\ call' = Called(verb, num, appid)
    /\ ops' = ops + 1
    /\ IF res # "Ok"
       THEN /\ ret' = Returned(EnterOrErr(res, "None"), NoBuf, res)
            /\ UNCHANGED <<active, panicked, app, pc, raa>>
       ELSE /\ app' = [app EXCEPT ![appid] = out.a]
            /\ panicked' = out.panic
            /\ IF out.raa /\ ~out.panic
               THEN \* reset_active_alarm is called with the grant still entered
                    /\ active' = [active EXCEPT !["ble"][appid] = @ + 1]
                    /\ pc' = "raa"
                    /\ raa' = [RaaIdle EXCEPT !.i = 1, !.now = t, !.outer = appid,
                                            !.code = out.code]
                    /\ ret' = Returned("RUNNING", NoBuf, res)
               ELSE /\ ret' = Returned(EnterOrErr(res, out.code), NoBuf, res)
                    /\ UNCHANGED <<active, pc, raa>>
    /\ started' = IF res = "Ok" /\ verb = "ble_command" /\ num = 1 /\ out.code = "SUCCESS"
                  THEN [started EXCEPT ![appid] = FALSE]
                  ELSE started
    /\ UNCHANGED <<alive, busy, alarm, nested, sender, rosVars>>

ble_command(command_num, data, appid, t, radio) ==
    /\ Idle
    /\ alive[appid]
    /\ IF command_num \in CommandNums
       THEN LET res == EnterResult("ble", appid, active["ble"][appid])
                out == CommandClosure(command_num, AppOf(appid), appid, data, t, radio)
            IN BleEnter(appid, "ble_command", command_num, res, out, t)
       ELSE /\ ret' = Returned("ENOSUPPORT", NoBuf, "None")
            /\ call' = Called("ble_command", command_num, appid)
            /\ ops' = ops + 1
            /\ UNCHANGED <<procVars, panicked, rosVars, bleVars>>

\* AllowType::from_usize
GapNums == (1..10) \cup {16, 18, 20, 21, 22, 25, 26, 255}

AllowType(n) ==
    IF n \in GapNums THEN "BLEGap"
    ELSE IF n = 49 THEN "PassiveScanning"
    ELSE IF n = 50 THEN "InitAdvertisementBuffer"
    ELSE "None"

AllowClosure(kind, allow_num, a, slice) ==
    CASE kind = "BLEGap" ->
            IF a.process_status # "NotInitialized"
            THEN set_gap_data([a EXCEPT !.app_write = Some(slice)], allow_num)
            ELSE Out(a, "EINVAL")
      [] kind = "PassiveScanning" ->
            IF a.process_status \in {"NotInitialized", "Initialized"}
            THEN Out([a EXCEPT !.app_read = Some(slice),
                               !.process_status = "Initialized"], "SUCCESS")
            ELSE Out(a, "EINVAL")
      [] kind = "InitAdvertisementBuffer" ->
            IF a.process_status = "NotInitialized"
            THEN LET i == initialize_advertisement_buffer(
                              [a EXCEPT !.advertisement_buf = Some(slice),
                                        !.process_status = "Initialized"])
                 IN IF i.panic THEN i ELSE Out(i.a, "SUCCESS")
            ELSE Out(a, "EINVAL")

\* The bytes of a slice of process memory of length len
SliceOf(len) == [i \in 1..len |-> 170]

ble_allow(appid, allow_num, len) ==
    /\ Idle
    /\ alive[appid]
    /\ LET kind == AllowType(allow_num)
       IN IF kind # "None"
          THEN LET res == EnterResult("ble", appid, active["ble"][appid])
                   out == AllowClosure(kind, allow_num, AppOf(appid), SliceOf(len))
               IN BleEnter(appid, "ble_allow", allow_num, res, out, U32Zero)
          ELSE /\ ret' = Returned("ENOSUPPORT", NoBuf, "None")
               /\ call' = Called("ble_allow", allow_num, appid)
               /\ ops' = ops + 1
               /\ UNCHANGED <<procVars, panicked, rosVars, bleVars>>

SubscribeClosure(a) ==
    IF a.process_status \in {"NotInitialized", "Initialized"}
    THEN Out([a EXCEPT !.scan_callback = TRUE], "SUCCESS")
    ELSE Out(a, "EINVAL")

\* callback.app_id() is the subscribing process
ble_subscribe(subscribe_num, appid) ==
    /\ Idle
    /\ alive[appid]
    /\ IF subscribe_num = 0
       THEN LET res == EnterResult("ble", appid, active["ble"][appid])
            IN BleEnter(appid, "ble_subscribe", subscribe_num, res,
                        SubscribeClosure(AppOf(appid)), U32Zero)
       ELSE /\ ret' = Returned("ENOSUPPORT", NoBuf, "None")
            /\ call' = Called("ble_subscribe", subscribe_num, appid)
            /\ ops' = ops + 1
            /\ UNCHANGED <<procVars, panicked, rosVars, bleVars>>

\* BLESender::set_busy, called by the radio: 0 is Free, p is Busy(p)
set_busy(state) ==
    /\ Idle
    /\ busy # state
    /\ busy' = state
    /\ UNCHANGED <<call, ret>>
    /\ ops' = ops + 1
    /\ UNCHANGED <<procVars, panicked, rosVars, app, alarm, pc, raa, nested, started,
                   sender>>

\* ---- AlarmClient::fired
\* BLE::new: sending_app and receiving_app are None.
NoSender == [sending_app |-> None, receiving_app |-> None, tx |-> {}]

\* now.wrapping_sub(app.alarm_data.t0) >= exp.wrapping_sub(app.alarm_data.t0)
Expired(a, now) ==
    ~U32Lt(wrapping_sub(now, a.alarm_data.t0),
           wrapping_sub(a.alarm_data.expiration[1], a.alarm_data.t0))

\* App::prepare_advertisement: state is cleared and bytes
\* PACKET_HDR_PDU..PACKET_LENGTH of the advertisement buffer are copied out.
prepare_advertisement(a) ==
    LET a1 == [a EXCEPT !.state = None]
    IN IF a1.advertisement_buf = None THEN Out(a1, "EINVAL")
       ELSE IF Len(a1.advertisement_buf[1]) < PACKET_LENGTH THEN Panic(a1)
       ELSE Out(a1, "SUCCESS")

\* Faulty variant: the busy state of the radio is not looked at.
BusyWithOtherNever(appid) == FALSE

\* if let BusyState::Busy(busy_app_id) = self.busy.get() { busy_app_id != appid }
BusyWithOther(appid) == busy # 0 /\ busy # appid

\* The closure of fired on the App of process appid; st carries the Apps,
\* the two cells and the transmissions started so far.
FiredClosure(st, appid, now) ==
    LET a == st.app[appid]
    IN IF a.alarm_data.expiration = None \/ ~Expired(a, now) THEN st
       ELSE IF BusyWithOther(appid)
       THEN [st EXCEPT !.app[appid] = set_next_alarm(a, now)]
       ELSE LET st1 == [st EXCEPT !.sender.receiving_app = Some(appid),
                                  !.sender.sending_app = Some(appid)]
            IN IF a.channel = None THEN [st1 EXCEPT !.panic = TRUE]
               ELSE LET prep == prepare_advertisement(a)
                    IN IF prep.panic THEN [st1 EXCEPT !.panic = TRUE]
                       ELSE [st1 EXCEPT !.app[appid] = prep.a,
                                        !.sender.tx = @ \cup {appid}]

\* self.app.each(closure): every process with a materialized grant, in order.
RECURSIVE FiredEach(_, _, _)
FiredEach(st, q, now) ==
    IF q > NumProcs \/ st.panic THEN st
    ELSE FiredEach(IF alive[q] /\ granted["ble"][q]
                   THEN FiredClosure(st, q, now) ELSE st,
                   q + 1, now)

\* BLE::fired: the alarm fires at the value it was set to; fired visits
\* every App and then calls reset_active_alarm, outside any grant.
BLE_fired ==
    /\ Idle
    /\ alarm # None
    /\ LET now == alarm[1]
           st == FiredEach([app |-> app, sender |-> [sender EXCEPT !.tx = {}],
                            panic |-> FALSE], 1, now)
       IN /\ app' = st.app
          /\ sender' = st.sender
          /\ panicked' = st.panic
          /\ alarm' = None
          /\ IF st.panic
             THEN /\ ret' = Returned("PANIC", NoBuf, "None")
                  /\ UNCHANGED <<pc, raa>>
             ELSE /\ ret' = Returned("RUNNING", NoBuf, "None")
                  /\ pc' = "raa"
                  /\ raa' = [RaaIdle EXCEPT !.i = 1, !.now = now]
    /\ call' = Called("fired", 0, 1)
    /\ ops' = ops + 1
    /\ UNCHANGED <<procVars, rosVars, busy, nested, started>>

\* ---- reset_active_alarm, one grant of the iteration at a time
\* Faulty variant: the iterated grant is entered without the grant's check.
RaaVisitUnchecked ==
    /\ ~panicked /\ pc = "raa" /\ raa.inner = 0 /\ raa.i <= NumProcs
    /\ LET q == raa.i
           res == "Ok"
       IN IF ~(alive[q] /\ granted["ble"][q])
          THEN /\ raa' = [raa EXCEPT !.i = @ + 1]
               /\ UNCHANGED <<active, nested>>
          ELSE /\ nested' = [p |-> q, res |-> res, wasActive |-> active["ble"][q] > 0]
               /\ IF res = "Ok"
                  THEN /\ active' = [active EXCEPT !["ble"][q] = @ + 1]
                       /\ raa' = [raa EXCEPT !.inner = q]
                  ELSE /\ raa' = [raa EXCEPT !.i = @ + 1]
                       /\ UNCHANGED active
    /\ UNCHANGED <<alive, memFree, granted, ops, panicked, call, ret, rosVars,
                   app, busy, alarm, pc, started, sender>>

\* for app in self.app.iter() { app.enter(..) }: the next process is visited;
\* one without a materialized grant is passed over.
RaaVisit ==
    /\ ~panicked /\ pc = "raa" /\ raa.inner = 0 /\ raa.i <= NumProcs
    /\ LET q == raa.i
           res == EnterResult("ble", q, active["ble"][q])
       IN IF ~(alive[q] /\ granted["ble"][q])
          THEN /\ raa' = [raa EXCEPT !.i = @ + 1]
               /\ UNCHANGED <<active, nested>>
          ELSE /\ nested' = [p |-> q, res |-> res, wasActive |-> active["ble"][q] > 0]
               /\ IF res = "Ok"
                  THEN /\ active' = [active EXCEPT !["ble"][q] = @ + 1]
                       /\ raa' = [raa EXCEPT !.inner = q]
                  ELSE /\ raa' = [raa EXCEPT !.i = @ + 1]
                       /\ UNCHANGED active
    /\ UNCHANGED <<alive, memFree, granted, ops, panicked, call, ret, rosVars,
                   app, busy, alarm, pc, started, sender>>

\* The closure of reset_active_alarm on one App, and leaving its grant.
RaaClosure(r, a) ==
    IF a.alarm_data.expiration = None THEN r
    ELSE LET exp == a.alarm_data.expiration[1]
             t_dist == wrapping_sub(exp, r.now)
         IN IF U32Lt(t_dist, r.next_dist)
            THEN [r EXCEPT !.next_alarm = exp, !.next_dist = t_dist]
            ELSE r

RaaLeave ==
    /\ ~panicked /\ pc = "raa" /\ raa.inner # 0
    /\ raa' = [RaaClosure(raa, app[raa.inner]) EXCEPT !.inner = 0, !.i = @ + 1]
    /\ active' = [active EXCEPT !["ble"][raa.inner] = @ - 1]
    /\ UNCHANGED <<alive, memFree, granted, ops, panicked, call, ret, rosVars,
                   app, busy, alarm, pc, nested, started, sender>>

\* if next_alarm != u32::max_value() { set_alarm(next_alarm) }, and the
\* handler that called reset_active_alarm returns.
RaaFinish ==
    /\ ~panicked /\ pc = "raa" /\ raa.inner = 0 /\ raa.i > NumProcs
    /\ alarm' = IF raa.next_alarm # U32Max THEN Some(raa.next_alarm) ELSE alarm
    /\ active' = IF raa.outer # 0 THEN [active EXCEPT !["ble"][raa.outer] = @ - 1]
                 ELSE active
    /\ ret' = [ret EXCEPT !.code = raa.code]
    /\ pc' = "idle"
    /\ raa' = RaaIdle
    /\ nested' = NoNested
    /\ started' = IF raa.outer # 0 /\ raa.code = "SUCCESS"
                  THEN [started EXCEPT ![raa.outer] = TRUE]
                  ELSE started
    /\ UNCHANGED <<alive, memFree, granted, ops, panicked, call, rosVars, app, busy,
                   sender>>

\* ------------------------------------------------------------------ board
ConsoleDriverNum == 1
AlarmDriverNum == 0
RosDriverNum == 65537
BleDriverNum == 196608

\* Esp32C3Board::with_driver: the driver the board registers for a number
with_driver(driver_num) ==
    IF driver_num = ConsoleDriverNum THEN "console"
    ELSE IF driver_num = AlarmDriverNum THEN "alarm"
    ELSE "None"

\* What the kernel answers a syscall with when with_driver yields None
NoDriverCode == "NODEVICE"

\* A syscall of a process for a driver number on the ESP32-C3 board.  The
\* console and the alarm driver take it from there when it is theirs.
board_syscall(p, driver_num, verb) ==
    /\ Idle
    /\ alive[p]
    /\ ret' = Returned(IF with_driver(driver_num) = "None" THEN NoDriverCode
                       ELSE "DISPATCHED", NoBuf, "None")
    /\ call' = Called(verb, driver_num, p)
    /\ ops' = ops + 1
    /\ UNCHANGED <<procVars, panicked, rosVars, bleVars>>

\* ------------------------------------------------------------------ environment
\* A process terminates or faults: its identity no longer names a process.
ProcessExit(p) ==
    /\ Idle
    /\ alive[p]
    /\ alive' = [alive EXCEPT ![p] = FALSE]
    /\ UNCHANGED <<call, ret>>
    /\ ops' = ops + 1
    /\ UNCHANGED <<memFree, granted, active, panicked, rosVars, bleVars>>

\* A process grows its heap over the memory that was free for grants.
ProcessBrk(p) ==
    /\ Idle
    /\ alive[p]
    /\ memFree[p] > 0
    /\ memFree' = [memFree EXCEPT ![p] = 0]
    /\ UNCHANGED <<call, ret>>
    /\ ops' = ops + 1
    /\ UNCHANGED <<alive, granted, active, panicked, rosVars, bleVars>>

\* How the kernel responds when a process faults: the board hands
\* PanicFaultPolicy to load_processes.
FAULT_RESPONSE == "Panic"

\* A process faults (MPU violation, illegal access): the kernel applies the
\* fault policy the process was loaded with. The panic policy panics the
\* kernel; any other policy stops the faulting process alone.
ProcessFault(p) ==
    /\ Idle
    /\ alive[p]
    /\ IF FAULT_RESPONSE = "Panic"
          THEN panicked' = TRUE /\ UNCHANGED alive
          ELSE alive' = [alive EXCEPT ![p] = FALSE] /\ UNCHANGED panicked
    /\ UNCHANGED <<call, ret>>
    /\ ops' = ops + 1
    /\ UNCHANGED <<memFree, granted, active, rosVars, bleVars>>

\* The entry point has returned: the process takes the result and goes on.
Resume ==
    /\ ~panicked /\ pc = "idle"
    /\ call.verb # "none"
    /\ call' = Called("none", 0, 1)
    /\ ret' = Returned("None", NoBuf, "None")
    /\ UNCHANGED <<procVars, ops, panicked, rosVars, bleVars>>

\* ------------------------------------------------------------------ rubble time types
\* A u64 is four 16-bit limbs, the least significant first.
W64Of(a) == <<a[2], a[1], 0, 0>>

\* u64 * k for k <= 32768
MulSmall(w, k) ==
    LET c1 == w[1] * k
        c2 == w[2] * k + c1 \div Half
        c3 == w[3] * k + c2 \div Half
        c4 == w[4] * k + c3 \div Half
    IN <<c1 % Half, c2 % Half, c3 % Half, c4 % Half>>

\* u64 / d for d <= 32768
DivSmall(w, d) ==
    LET n4 == w[4]
        n3 == (n4 % d) * Half + w[3]
        n2 == (n3 % d) * Half + w[2]
        n1 == (n2 % d) * Half + w[1]
    IN <<n1 \div d, n2 \div d, n3 \div d, n4 \div d>>

\* x * 1000_000u64 and x / 1000_000u64, with 1000000 = 15625 * 64
MulMillion(w) == MulSmall(MulSmall(w, 15625), 64)
DivMillion(w) == DivSmall(DivSmall(w, 15625), 64)

\* u32::try_from(u64): None when the value does not fit
TryIntoU32(w) == IF w[3] = 0 /\ w[4] = 0 THEN Some(<<w[2], w[1]>>) ELSE None

\* The raw tick values converted: every value up to MaxRawTick, the values of
\* the round-trip test, the last value whose microseconds fit in 32 bits, the
\* first that does not, and u32::MAX.
RawTicks ==
    {U32Of(n) : n \in 0..MaxRawTick}
    \cup {U32Of(3120), U32Of(10000), U32Of(22500), U32Of(9514094),
          U32Of(140737488), U32Of(140737489), U32Max}

\* Faulty variant: the division is done before the multiplication.
InstantOfDividesFirst(raw) ==
    TryIntoU32(MulMillion(DivSmall(W64Of(raw), Frequency)))

\* ((raw as u64 * 1000_000u64) / A::Frequency::frequency() as u64).try_into()
InstantOf(raw) ==
    TryIntoU32(DivSmall(MulMillion(W64Of(raw)), Frequency))

\* u32::try_from(self.microseconds as u64 * frequency as u64 / 1000_000u64)
AlarmTimeOf(microseconds) ==
    TryIntoU32(DivMillion(MulSmall(W64Of(microseconds), Frequency)))

NoInstant == [op |-> "none", raw |-> U32Zero, instant |-> None, ticks |-> None]

RubbleRest == <<procVars, ops, call, ret, rosVars, bleVars, dcVars, mpuVars, cdcVars>>

\* Instant::from_alarm_time: unwrap panics when the microseconds do not fit.
from_alarm_time(raw) ==
    /\ ~panicked
    /\ LET us == InstantOf(raw)
       IN /\ tm' = [op |-> "from_alarm_time", raw |-> raw, instant |-> us,
                    ticks |-> None]
          /\ panicked' = (us = None)
    /\ UNCHANGED <<dur, RubbleRest>>

\* Instant::to_alarm_time on the Instant made last
to_alarm_time ==
    /\ ~panicked
    /\ tm.op = "from_alarm_time" /\ tm.instant # None
    /\ LET t == AlarmTimeOf(tm.instant[1])
       IN /\ tm' = [tm EXCEPT !.op = "to_alarm_time", !.ticks = t]
          /\ panicked' = (t = None)
    /\ UNCHANGED <<dur, RubbleRest>>

\* The amounts a Duration is made of: u16 values
Amounts == (0..MaxAmount) \cup {999, 1000, 4294, 4295, 65535}

NoDuration == [ctor |-> "none", arg |-> 0, micros |-> U32Zero, overflow |-> FALSE,
               op |-> "none", whole |-> U32Zero]

\* Duration(u32::from(amount) * unit) for the unit 1_000 or 1_000_000: a
\* product over 32 bits panics in a build with overflow checks and wraps in
\* one without.
DurationOf(ctor, amount, wide, checks) ==
    [ctor |-> ctor, arg |-> amount, micros |-> <<wide[2], wide[1]>>,
     overflow |-> TryIntoU32(wide) = None, op |-> "none", whole |-> U32Zero]

Duration_new(ctor, amount, wide, checks) ==
    /\ ~panicked
    /\ dur' = DurationOf(ctor, amount, wide, checks)
    /\ panicked' = (checks /\ TryIntoU32(wide) = None)
    /\ UNCHANGED <<tm, RubbleRest>>

\* Duration::from_millis
from_millis(millis, checks) ==
    Duration_new("from_millis", millis,
                 MulSmall(W64Of(U32Of(millis)), 1000), checks)

\* Duration::from_secs
from_secs(secs, checks) ==
    Duration_new("from_secs", secs, MulMillion(W64Of(U32Of(secs))), checks)

\* Duration::whole_secs: self.0 / 1_000_000
whole_secs ==
    /\ ~panicked
    /\ dur.ctor # "none" /\ dur.op = "none"
    /\ LET q == DivMillion(W64Of(dur.micros))
       IN dur' = [dur EXCEPT !.op = "whole_secs", !.whole = <<q[2], q[1]>>]
    /\ UNCHANGED <<panicked, tm, RubbleRest>>

\* Duration::whole_millis: self.0 / 1_000
whole_millis ==
    /\ ~panicked
    /\ dur.ctor # "none" /\ dur.op = "none"
    /\ LET q == DivSmall(W64Of(dur.micros), 1000)
       IN dur' = [dur EXCEPT !.op = "whole_millis", !.whole = <<q[2], q[1]>>]
    /\ UNCHANGED <<panicked, tm, RubbleRest>>

\* ------------------------------------------------------------------ USB CDC
\* The length of the packet buffer of an endpoint: [VolatileCell<u8>; 64]
PacketLen == 64

\* The TX buffers of the UART client: one of MaxTxBufLen bytes, one of 3.
TxBufs == {1, 2}
TxBufLen(b) == IF b = 1 THEN MaxTxBufLen ELSE 3
TxByte(b, i) == (7 * i + b) % 256
\* The lengths asked for: none, one byte, the short buffer and one over it, a
\* packet and one over it, the long buffer and one over it.
TxLens == {0, 1, 3, 4, PacketLen, PacketLen + 1, MaxTxBufLen, MaxTxBufLen + 1}
TransferTypes == {"Bulk", "Interrupt"}

\* Cdc::new
Cdc_new == [tx_buffer |-> None, tx_len |-> 0, tx_remaining |-> 0, tx_offset |-> 0,
            tx_client |-> FALSE]

TxResult(c, code, back, resume) ==
    [cdc |-> c, code |-> code, back |-> back, resume |-> resume]

\* Faulty variant: the state is set up before the length is checked.
Cdc_transmit_bufferSetsLenFirst(c, b, tx_len) ==
    IF c.tx_buffer # None THEN TxResult(c, "EBUSY", Some(b), FALSE)
    ELSE LET c1 == [c EXCEPT !.tx_remaining = tx_len, !.tx_len = tx_len,
                             !.tx_offset = 0]
         IN IF tx_len > TxBufLen(b) THEN TxResult(c1, "ESIZE", Some(b), FALSE)
            ELSE TxResult([c1 EXCEPT !.tx_buffer = Some(b)], "SUCCESS", None, TRUE)

\* Cdc::transmit_buffer
Cdc_transmit_buffer(c, b, tx_len) ==
    IF c.tx_buffer # None THEN TxResult(c, "EBUSY", Some(b), FALSE)
    ELSE IF tx_len > TxBufLen(b) THEN TxResult(c, "ESIZE", Some(b), FALSE)
    ELSE TxResult([c EXCEPT !.tx_remaining = tx_len, !.tx_len = tx_len,
                            !.tx_offset = 0, !.tx_buffer = Some(b)],
                  "SUCCESS", None, TRUE)

InResult(c, result, bytes, callback, dropped, panic) ==
    [cdc |-> c, result |-> result, bytes |-> bytes, callback |-> callback,
     dropped |-> dropped, panic |-> panic]

\* Faulty variant: the offset into the TX buffer is not advanced.
Cdc_packet_inKeepsOffset(c, transfer_type) ==
    IF transfer_type = "Interrupt" THEN InResult(c, "Error", <<>>, None, None, FALSE)
    ELSE IF c.tx_buffer = None THEN InResult(c, "Delay", <<>>, None, None, FALSE)
    ELSE LET tx_buf == c.tx_buffer[1]
             remaining == c.tx_remaining
             to_send == Min(PacketLen, remaining)
             offset == c.tx_offset
         IN IF remaining > 0
            THEN InResult([c EXCEPT !.tx_remaining = remaining - to_send],
                          "Packet", [i \in 1..to_send |-> TxByte(tx_buf, offset + i)],
                          None, None, FALSE)
            ELSE InResult([c EXCEPT !.tx_buffer = None], "Delay", <<>>,
                          IF c.tx_client THEN Some(<<tx_buf, c.tx_len, "SUCCESS">>)
                          ELSE None,
                          IF c.tx_client THEN None ELSE Some(tx_buf), FALSE)

\* Cdc::packet_in on the bulk IN endpoint: the TX buffer is taken; with bytes
\* remaining a packet of at most PacketLen of them is copied out and the
\* buffer put back; with none remaining the buffer goes to the TX client,
\* and is dropped if there is no client.
Cdc_packet_in(c, transfer_type) ==
    IF transfer_type = "Interrupt" THEN InResult(c, "Error", <<>>, None, None, FALSE)
    ELSE IF c.tx_buffer = None THEN InResult(c, "Delay", <<>>, None, None, FALSE)
    ELSE LET tx_buf == c.tx_buffer[1]
             remaining == c.tx_remaining
             to_send == Min(PacketLen, remaining)
             offset == c.tx_offset
         IN IF remaining > 0
            THEN IF offset + to_send > TxBufLen(tx_buf)
                 THEN InResult([c EXCEPT !.tx_buffer = None], "Panic", <<>>,
                               None, None, TRUE)
                 ELSE InResult([c EXCEPT !.tx_remaining = remaining - to_send,
                                         !.tx_offset = offset + to_send],
                               "Packet",
                               [i \in 1..to_send |-> TxByte(tx_buf, offset + i)],
                               None, None, FALSE)
            ELSE InResult([c EXCEPT !.tx_buffer = None], "Delay", <<>>,
                          IF c.tx_client THEN Some(<<tx_buf, c.tx_len, "SUCCESS">>)
                          ELSE None,
                          IF c.tx_client THEN None ELSE Some(tx_buf), FALSE)

NoCdcHist ==
    [owned |-> TxBufs, op |-> "none", code |-> "None", back |-> None,
     resumed |-> FALSE, buf |-> 0, n |-> 0, client |-> FALSE, sent |-> <<>>,
     chunks |-> <<>>, callbacks |-> <<>>]

CdcRest == <<procVars, ops, call, ret, rosVars, bleVars, dcVars, mpuVars, rubbleVars>>

\* uart::Transmit::set_transmit_client
set_transmit_client ==
    /\ ~panicked
    /\ ~cdc.tx_client
    /\ cdc' = [cdc EXCEPT !.tx_client = TRUE]
    /\ cdcHist' = [cdcHist EXCEPT !.op = "set_transmit_client", !.code = "None",
                                  !.back = None]
    /\ UNCHANGED <<panicked, CdcRest>>

\* uart::Transmit::transmit_buffer, with a buffer the client holds
transmit_buffer(b, tx_len) ==
    /\ ~panicked
    /\ b \in cdcHist.owned
    /\ LET r == Cdc_transmit_buffer(cdc, b, tx_len)
       IN /\ cdc' = r.cdc
          /\ cdcHist' =
                IF r.code = "SUCCESS"
                THEN [cdcHist EXCEPT !.owned = @ \ {b}, !.op = "transmit_buffer",
                                     !.code = r.code, !.back = r.back,
                                     !.resumed = r.resume, !.buf = b, !.n = tx_len,
                                     !.client = cdc.tx_client,
                                     !.sent = <<>>, !.chunks = <<>>,
                                     !.callbacks = <<>>]
                ELSE [cdcHist EXCEPT !.op = "transmit_buffer", !.code = r.code,
                                     !.back = r.back]
    /\ UNCHANGED <<panicked, CdcRest>>

\* hil::usb::Client::packet_in, called by the controller
packet_in(transfer_type) ==
    /\ ~panicked
    /\ LET r == Cdc_packet_in(cdc, transfer_type)
       IN /\ cdc' = r.cdc
          /\ panicked' = r.panic
          /\ cdcHist' =
                [cdcHist EXCEPT
                   !.op = "packet_in", !.code = r.result, !.back = None,
                   !.resumed = IF r.result = "Delay" THEN FALSE ELSE @,
                   !.sent = @ \o r.bytes,
                   !.chunks = IF r.result = "Packet" THEN Append(@, Len(r.bytes)) ELSE @,
                   !.callbacks = IF r.callback # None THEN Append(@, r.callback[1])
                                 ELSE @,
                   !.owned = IF r.callback # None THEN @ \cup {r.callback[1][1]}
                             ELSE @]
    /\ UNCHANGED CdcRest

\* ------------------------------------------------------------------ the no-op MPU
\* The arguments of create_region.
RegionNums == 0..MaxRegionNum
Starts == {0, 4096}
Lens == {0, 32, 33}
ExecutePermissions == {"ExecutionPermitted", "ExecutionNotPermitted"}
AccessPermissions ==
    {"NoAccess", "PrivilegedOnly", "UnprivilegedReadOnly", "ReadWrite", "Reserved",
     "PrivilegedOnlyReadOnly", "ReadOnly", "ReadOnlyAlais"}

\* (region_num as u32) | 1 << 4
OrBit4(n) == IF (n \div 16) % 2 = 1 THEN n ELSE n + 16

\* Region::empty(region_num)
Region_empty(region_num) ==
    [base_address |-> OrBit4(region_num), attributes |-> 0]

\* Faulty variant: a region of no length is refused.
unit_create_regionChecksLen(region_num, start, len, execute, access) ==
    IF len = 0 THEN None ELSE Some(Region_empty(0))

\* <() as MPU>::create_region
unit_create_region(region_num, start, len, execute, access) ==
    Some(Region_empty(0))

CreateArgs(region_num, start, len, execute, access) ==
    [region_num |-> region_num, start |-> start, len |-> len,
     execute |-> execute, access |-> access]

NoArgs == CreateArgs(0, 0, 0, "None", "None")

MpuCalled(op, args, res) == [op |-> op, args |-> args, res |-> res]

MpuRest == <<procVars, ops, panicked, call, ret, rosVars, bleVars, dcVars, rubbleVars,
            cdcVars>>

\* <() as MPU>::enable_mpu: an empty body.
enable_mpu ==
    /\ mpuLast' = MpuCalled("enable_mpu", NoArgs, None)
    /\ UNCHANGED <<mpuEnabled, mpuRegions, MpuRest>>

create_region(region_num, start, len, execute, access) ==
    /\ mpuLast' = MpuCalled("create_region",
                            CreateArgs(region_num, start, len, execute, access),
                            unit_create_region(region_num, start, len, execute, access))
    /\ UNCHANGED <<mpuEnabled, mpuRegions, MpuRest>>

\* <() as MPU>::set_mpu: an empty body, whatever the region.
set_mpu(region) ==
    /\ mpuLast' = MpuCalled("set_mpu", NoArgs, Some(region))
    /\ UNCHANGED <<mpuEnabled, mpuRegions, MpuRest>>

\* ------------------------------------------------------------------ deferred calls
\* The registry of deferred calls: a pending flag per handle. set(handle)
\* marks the slot pending, from any context.
Slots == 1..NumSlots
RngHandle == 1

dc_set(pend, handle) == [pend EXCEPT ![handle] = TRUE]

\* ------------------------------------------------------------------ VirtIORng
\* The virtqueue holds the buffers offered to the device (avail) and the
\* ones the device has filled (used), as their lengths, oldest first.
QueueHasRoom(q) == Len(q.avail) + Len(q.used) < MaxQueue

\* What an operation of VirtIORng works on: its own fields, the
\* virtqueue, the pending flags; res is the operation's result.
\* back is the buffer an Err hands back.
World == [rng |-> rng, vq |-> vq, pend |-> dcPending, res |-> "None", panic |-> FALSE,
          back |-> None]

\* Faulty variant: the capacity is counted before the queue is asked.
rng_provide_bufferCountsFirst(w, len) ==
    IF len < 4 THEN [w EXCEPT !.res = "INVAL", !.back = Some(len)]
    ELSE LET w1 == [w EXCEPT !.rng.buffer_capacity = @ + len]
         IN IF ~QueueHasRoom(w.vq) THEN [w1 EXCEPT !.res = "NOMEM", !.back = Some(len)]
            ELSE [w1 EXCEPT !.vq.avail = Append(@, len), !.res = "Ok", !.back = None]

\* VirtIORng::provide_buffer with a buffer of len bytes
rng_provide_buffer(w, len) ==
    IF len < 4 THEN [w EXCEPT !.res = "INVAL", !.back = Some(len)]
    ELSE IF ~QueueHasRoom(w.vq) THEN [w EXCEPT !.res = "NOMEM", !.back = Some(len)]
    ELSE [w EXCEPT !.vq.avail = Append(@, len),
                   !.rng.buffer_capacity = @ + len,
                   !.res = "Ok", !.back = None]

\* Faulty variant: the deferred call is set without asking the queue for
\* a used buffer.
rng_getSkipsUsedCheck(w) ==
    IF w.rng.buffer_capacity < 4 THEN [w EXCEPT !.res = "FAIL"]
    ELSE IF ~w.rng.client THEN [w EXCEPT !.res = "FAIL"]
    ELSE IF w.rng.callback_pending THEN [w EXCEPT !.res = "OFF"]
    ELSE IF w.rng.deferred_call_handle = None THEN [w EXCEPT !.res = "FAIL"]
    ELSE [w EXCEPT !.rng.callback_pending = TRUE,
                   !.pend = dc_set(@, w.rng.deferred_call_handle[1]),
                   !.res = "Ok"]

\* Rng::get
rng_get(w) ==
    IF w.rng.buffer_capacity < 4 THEN [w EXCEPT !.res = "FAIL"]
    ELSE IF ~w.rng.client THEN [w EXCEPT !.res = "FAIL"]
    ELSE IF w.rng.callback_pending THEN [w EXCEPT !.res = "OFF"]
    ELSE IF Len(w.vq.used) < 1
         THEN [w EXCEPT !.rng.callback_pending = TRUE, !.vq.callbacks = TRUE,
                        !.res = "OFF"]
    ELSE IF w.rng.deferred_call_handle = None THEN [w EXCEPT !.res = "FAIL"]
    ELSE [w EXCEPT !.rng.callback_pending = TRUE,
                   !.pend = dc_set(@, w.rng.deferred_call_handle[1]),
                   !.res = "Ok"]

\* Faulty variant: the used callbacks enabled instead of disabled.
rng_cancelEnables(w) ==
    [w EXCEPT !.rng.callback_pending = FALSE, !.vq.callbacks = TRUE, !.res = "Ok"]

rng_cancel(w) ==
    [w EXCEPT !.rng.callback_pending = FALSE, !.vq.callbacks = FALSE, !.res = "Ok"]

\* The answer of the client to randomness_available, Done without one
ContOf(w, answer) ==
    IF w.rng.callback_pending /\ w.rng.client THEN answer ELSE "Done"

\* Faulty variant: More from the client is not followed by get().
buffer_chain_callbackIgnoresMore(w, len, answer) ==
    LET w1 == [w EXCEPT !.vq.callbacks = FALSE]
        w2 == [w1 EXCEPT !.rng.callback_pending = FALSE]
        w4 == rng_provide_buffer(w2, len)
    IN  IF w1.rng.buffer_capacity < len THEN [w1 EXCEPT !.panic = TRUE]
        ELSE IF w4.res # "Ok" THEN [w2 EXCEPT !.panic = TRUE]
        ELSE w4

\* buffer_chain_callback on the buffer of length len taken from the queue
buffer_chain_callback(w, len, answer) ==
    LET w1 == [w EXCEPT !.vq.callbacks = FALSE]
        w2 == [w1 EXCEPT !.rng.callback_pending = FALSE]
        w3 == IF ContOf(w1, answer) = "More" THEN rng_get(w2) ELSE w2
        w4 == rng_provide_buffer(w3, len)
    IN  IF w1.rng.buffer_capacity < len THEN [w1 EXCEPT !.panic = TRUE]
        ELSE IF w4.res # "Ok" THEN [w3 EXCEPT !.panic = TRUE]
        ELSE w4

\* pop_used_descriptor_chain, then the callback; a panic on an empty queue
rng_call(w, answer) ==
    IF Len(w.vq.used) > 0
    THEN buffer_chain_callback([w EXCEPT !.vq.used = Tail(@)], Head(w.vq.used), answer)
    ELSE [w EXCEPT !.panic = TRUE]

DcApply(w) ==
    /\ rng' = w.rng
    /\ vq' = w.vq
    /\ dcPending' = w.pend
    /\ panicked' = w.panic

DcIdle == ~panicked /\ ~scan.active
SysRest == <<procVars, ops, call, ret, rosVars, bleVars, mpuVars, rubbleVars, cdcVars>>
DcRest == <<SysRest, rngLast>>

\* What is kept of a call of VirtIORng: pending is callback_pending as
\* the call found it.
RngCalled(op, res) ==
    [op |-> op, res |-> res, pending |-> rng.callback_pending, back |-> None]


set_deferred_call_handle ==
    /\ DcIdle
    /\ rng' = [rng EXCEPT !.deferred_call_handle = Some(RngHandle)]
    /\ UNCHANGED <<dcPending, scan, calling, fired, rearmed, owed, cont, vq, fills,
                   panicked, SysRest>>
    /\ rngLast' = RngCalled("set_deferred_call_handle", "Ok")

set_client ==
    /\ DcIdle
    /\ rng' = [rng EXCEPT !.client = TRUE]
    /\ UNCHANGED <<dcPending, scan, calling, fired, rearmed, owed, cont, vq, fills,
                   panicked, SysRest>>
    /\ rngLast' = RngCalled("set_client", "Ok")

provide_buffer(len) ==
    /\ DcIdle
    /\ DcApply(rng_provide_buffer(World, len))
    /\ UNCHANGED <<scan, calling, fired, rearmed, owed, cont, fills, SysRest>>
    /\ rngLast' = [RngCalled("provide_buffer", rng_provide_buffer(World, len).res)
                   EXCEPT !.back = rng_provide_buffer(World, len).back]

get ==
    /\ DcIdle
    /\ DcApply(rng_get(World))
    /\ UNCHANGED <<scan, calling, fired, rearmed, owed, cont, fills, SysRest>>
    /\ rngLast' = RngCalled("get", rng_get(World).res)

cancel ==
    /\ DcIdle
    /\ DcApply(rng_cancel(World))
    /\ UNCHANGED <<scan, calling, fired, rearmed, owed, cont, fills, SysRest>>
    /\ rngLast' = RngCalled("cancel", rng_cancel(World).res)

\* The device fills the oldest buffer offered to it.
DeviceFill ==
    /\ ~panicked
    /\ fills < MaxFills
    /\ Len(vq.avail) > 0
    /\ vq' = [vq EXCEPT !.avail = Tail(@), !.used = Append(@, Head(vq.avail))]
    /\ fills' = fills + 1
    /\ UNCHANGED <<dcPending, scan, calling, fired, rearmed, owed, cont, rng,
                   panicked, DcRest>>

\* The interrupt of the queue, callbacks enabled: the oldest used buffer
\* is handed to buffer_chain_ready.
buffer_chain_ready(answer) ==
    /\ ~panicked
    /\ vq.callbacks
    /\ Len(vq.used) > 0
    /\ DcApply(buffer_chain_callback([World EXCEPT !.vq.used = Tail(@)],
                                     Head(vq.used), answer))
    /\ cont' = ContOf(World, answer)
    /\ UNCHANGED <<scan, calling, fired, rearmed, owed, fills, DcRest>>

\* The top half of another client marks its slot pending.
OtherSet(h) ==
    /\ ~panicked
    /\ h # RngHandle
    /\ dcPending' = dc_set(dcPending, h)
    /\ UNCHANGED <<scan, calling, fired, rearmed, owed, cont, rng, vq, fills,
                   panicked, DcRest>>

\* ---- the scan pass of the kernel loop
NoScan == [active |-> FALSE, todo |-> {}, start |-> {}]

ScanBegin ==
    /\ ~panicked
    /\ ~scan.active
    /\ \E h \in Slots : dcPending[h]
    /\ scan' = [active |-> TRUE, todo |-> Slots, start |-> {h \in Slots : dcPending[h]}]
    /\ fired' = [h \in Slots |-> 0]
    /\ owed' = rearmed
    /\ rearmed' = {}
    /\ UNCHANGED <<dcPending, calling, cont, rng, vq, fills, panicked, DcRest>>

\* Faulty variant: the client is called with its flag left set.
ScanVisitKeepsFlag(h) ==
    /\ ~panicked
    /\ scan.active /\ calling = 0
    /\ h \in scan.todo
    /\ scan' = [scan EXCEPT !.todo = @ \ {h}]
    /\ calling' = IF dcPending[h] THEN h ELSE 0
    /\ UNCHANGED <<dcPending, fired, rearmed, owed, cont, rng, vq, fills, panicked, DcRest>>

\* The pass reaches slot h: a pending one has its flag cleared, then its
\* client is called.
ScanVisit(h) ==
    /\ ~panicked
    /\ scan.active /\ calling = 0
    /\ h \in scan.todo
    /\ scan' = [scan EXCEPT !.todo = @ \ {h}]
    /\ IF dcPending[h]
       THEN dcPending' = [dcPending EXCEPT ![h] = FALSE] /\ calling' = h
       ELSE UNCHANGED <<dcPending, calling>>
    /\ UNCHANGED <<fired, rearmed, owed, cont, rng, vq, fills, panicked, DcRest>>

\* call of the client of the slot reached
call_client(answer) ==
    /\ ~panicked
    /\ calling # 0
    /\ IF calling = RngHandle
       THEN /\ DcApply(rng_call(World, answer))
            /\ cont' = IF Len(vq.used) > 0 THEN ContOf(World, answer) ELSE "None"
            /\ rearmed' = IF rng_call(World, answer).pend[calling] /\ ~dcPending[calling]
                          THEN rearmed \cup {calling}
                          ELSE rearmed
       ELSE /\ answer = "Done"
            /\ UNCHANGED <<dcPending, rng, vq, panicked, cont, rearmed>>
    /\ fired' = [fired EXCEPT ![calling] = @ + 1]
    /\ calling' = 0
    /\ UNCHANGED <<scan, owed, fills, DcRest>>

ScanEnd ==
    /\ ~panicked
    /\ scan.active /\ calling = 0 /\ scan.todo = {}
    /\ scan' = NoScan
    /\ UNCHANGED <<dcPending, calling, fired, rearmed, owed, cont, rng, vq, fills,
                   panicked, DcRest>>

\* ------------------------------------------------------------------ specification
InitWith(cnt, data) ==
    /\ alive = [p \in Procs |-> TRUE]
    /\ memFree = [p \in Procs |-> MaxMem]
    /\ granted = [c \in Capsules |-> [p \in Procs |-> FALSE]]
    /\ active = [c \in Capsules |-> [p \in Procs |-> 0]]
    /\ ops = 0
    /\ panicked = FALSE
    /\ call = Called("none", 0, 1)
    /\ ret = Returned("None", NoBuf, "None")
    /\ count = cnt
    /\ mem_region = [p \in Procs |-> 0]
    /\ userBufs = [p \in Procs |-> 1..NumBufs]
    /\ bufData = data
    /\ lastStored = [p \in Procs |-> 0]
    /\ app = [p \in Procs |-> DefaultApp]
    /\ busy = 0
    /\ sender = NoSender
    /\ alarm = None
    /\ pc = "idle"
    /\ raa = RaaIdle
    /\ nested = NoNested
    /\ started = [p \in Procs |-> FALSE]
    /\ dcPending = [h \in Slots |-> FALSE]
    /\ scan = NoScan
    /\ calling = 0
    /\ fired = [h \in Slots |-> 0]
    /\ rearmed = {}
    /\ owed = {}
    /\ cont = "None"
    /\ rng = [buffer_capacity |-> 0, callback_pending |-> FALSE,
              deferred_call_handle |-> None, client |-> FALSE]
    /\ vq = [avail |-> <<>>, used |-> <<>>, callbacks |-> FALSE]
    /\ fills = 0
    /\ rngLast = [op |-> "none", res |-> "None", pending |-> FALSE, back |-> None]
    /\ mpuEnabled = FALSE
    /\ mpuRegions = [n \in RegionNums |-> None]
    /\ mpuLast = MpuCalled("none", NoArgs, None)
    /\ tm = NoInstant
    /\ dur = NoDuration
    /\ cdc = Cdc_new
    /\ cdcHist = NoCdcHist

\* ROSDriver::new: count is 0; the buffers of the processes are zeroed.
Init ==
    InitWith(U32Zero, [p \in Procs |-> [b \in BufIds |-> [i \in 1..BufLen(b) |-> 0]]])

\* The driver after any number of updates, with processes whose buffers
\* have any length up to MaxBufLen and hold bytes of their own.
InitLayout ==
    \E c \in CountVals, L \in 0..MaxBufLen :
        InitWith(c, [p \in Procs |->
                        [b \in BufIds |-> IF b = 0 THEN <<>> ELSE SliceOf(L)]])

\* The entry points, at most max of them in a behaviour.
RosEntry(max) ==
    \/ \E p \in Procs, n \in PendingVals, t \in NowVals :
          ops < max /\ update_values(p, n, t) /\ UNCHANGED <<dcVars, mpuVars, rubbleVars, cdcVars>>
    \/ \E p \in Procs, w \in {0, 1}, b \in BufIds :
          ops < max /\ allow_shared(p, w, b) /\ UNCHANGED <<dcVars, mpuVars, rubbleVars, cdcVars>>
    \/ \E p \in Procs, n \in {0, 1} :
          ops < max /\ ros_command(n, p) /\ UNCHANGED <<dcVars, mpuVars, rubbleVars, cdcVars>>
    \/ \E p \in Procs :
          ops < max /\ allocate_grant(p) /\ UNCHANGED <<dcVars, mpuVars, rubbleVars, cdcVars>>

\* The arguments an entry point reads: data in command 2, the clock in
\* the commands that set an alarm.
DataFor(n) == IF n = 2 THEN TxPowers ELSE {0}
NowFor(n) == IF n \in {0, 5} THEN NowVals ELSE {U32Zero}

BleEntry(max) ==
    \/ \E p \in Procs, n \in 0..7, r \in RadioCodes :
          \E d \in DataFor(n), t \in NowFor(n) :
              ops < max /\ ble_command(n, d, p, t, r) /\ UNCHANGED <<dcVars, mpuVars, rubbleVars, cdcVars>>
    \/ \E p \in Procs, al \in Allows :
          ops < max /\ ble_allow(p, al[1], al[2]) /\ UNCHANGED <<dcVars, mpuVars, rubbleVars, cdcVars>>
    \/ \E p \in Procs, n \in {0, 1} :
          ops < max /\ ble_subscribe(n, p) /\ UNCHANGED <<dcVars, mpuVars, rubbleVars, cdcVars>>
    \/ \E st \in 0..NumProcs :
          ops < max /\ set_busy(st) /\ UNCHANGED <<dcVars, mpuVars, rubbleVars, cdcVars>>

\* The entry points that start and stop advertising and scanning, and the
\* alarm of the driver.
AlarmEntry(max) ==
    \/ \E p \in Procs, n \in {0, 1, 5} :
          \E t \in NowFor(n) :
              ops < max /\ ble_command(n, 0, p, t, "SUCCESS")
                        /\ UNCHANGED <<dcVars, mpuVars, rubbleVars, cdcVars>>
    \/ \E p \in Procs :
          ops < max /\ ble_allow(p, 50, PACKET_LENGTH) /\ UNCHANGED <<dcVars, mpuVars, rubbleVars, cdcVars>>
    \/ \E st \in 0..NumProcs :
          ops < max /\ set_busy(st) /\ UNCHANGED <<dcVars, mpuVars, rubbleVars, cdcVars>>
    \/ ops < max /\ BLE_fired /\ UNCHANGED <<dcVars, mpuVars, rubbleVars, cdcVars>>

\* Sharing a buffer with the ROS driver and updating its values.
LayoutEntry(max) ==
    \/ \E p \in Procs, n \in PendingVals, t \in NowVals :
          ops < max /\ update_values(p, n, t) /\ UNCHANGED <<dcVars, mpuVars, rubbleVars, cdcVars>>
    \/ \E p \in Procs, b \in BufIds :
          ops < max /\ allow_shared(p, 0, b) /\ UNCHANGED <<dcVars, mpuVars, rubbleVars, cdcVars>>

BleSteps ==
    \/ RaaVisit /\ UNCHANGED <<dcVars, mpuVars, rubbleVars, cdcVars>>
    \/ RaaLeave /\ UNCHANGED <<dcVars, mpuVars, rubbleVars, cdcVars>>
    \/ RaaFinish /\ UNCHANGED <<dcVars, mpuVars, rubbleVars, cdcVars>>

BoardEntry(max) ==
    \E p \in Procs, d \in DriverNums, v \in {"command", "allow", "subscribe"} :
        ops < max /\ board_syscall(p, d, v) /\ UNCHANGED <<dcVars, mpuVars, rubbleVars, cdcVars>>

Env(max) ==
    \/ \E p \in Procs : ops < max /\ ProcessExit(p) /\ UNCHANGED <<dcVars, mpuVars, rubbleVars, cdcVars>>
    \/ \E p \in Procs : ops < max /\ ProcessBrk(p) /\ UNCHANGED <<dcVars, mpuVars, rubbleVars, cdcVars>>

Faults(max) ==
    \E p \in Procs : ops < max /\ ProcessFault(p) /\ UNCHANGED <<dcVars, mpuVars, rubbleVars, cdcVars>>

InstantEntry ==
    \/ \E raw \in RawTicks : from_alarm_time(raw)
    \/ to_alarm_time

DurationEntry ==
    \/ \E m \in Amounts, checks \in BOOLEAN : from_millis(m, checks)
    \/ \E sec \in Amounts, checks \in BOOLEAN : from_secs(sec, checks)
    \/ whole_secs
    \/ whole_millis

CdcEntry ==
    \/ set_transmit_client
    \/ \E b \in TxBufs, n \in TxLens : transmit_buffer(b, n)
    \/ \E tt \in TransferTypes : packet_in(tt)

MpuEntry ==
    \/ enable_mpu
    \/ \E n \in RegionNums, st \in Starts, len \in Lens,
          e \in ExecutePermissions, a \in AccessPermissions :
          create_region(n, st, len, e, a)
    \/ \E n \in RegionNums : set_mpu(Region_empty(n))

RngEntry ==
    \/ set_deferred_call_handle
    \/ set_client
    \/ \E len \in BufLens : provide_buffer(len)
    \/ get
    \/ cancel

Interrupts ==
    \/ DeviceFill
    \/ \E answer \in Answers : buffer_chain_ready(answer)
    \/ \E h \in Slots : OtherSet(h)

ScanSteps ==
    \/ ScanBegin
    \/ \E h \in Slots : ScanVisit(h)
    \/ \E answer \in Answers : call_client(answer)
    \/ ScanEnd

Returns == Resume /\ UNCHANGED <<dcVars, mpuVars, rubbleVars, cdcVars>>

Next ==
    \/ RosEntry(MaxOps) \/ BleEntry(MaxOps) \/ BoardEntry(MaxOps) \/ Env(MaxOps)
    \/ BleSteps \/ Returns

NextROS == RosEntry(MaxRosOps) \/ Env(MaxRosOps) \/ Returns

NextBLE == BleEntry(MaxBleOps) \/ Env(MaxBleOps) \/ BleSteps \/ Returns

NextBoard == BoardEntry(MaxOps) \/ Env(MaxOps) \/ Faults(MaxOps) \/ Returns

NextAlarm == AlarmEntry(MaxAlarmOps) \/ BleSteps \/ Returns

NextLayout == LayoutEntry(MaxLayoutOps) \/ Returns

NextInstant == InstantEntry

NextDuration == DurationEntry

NextCdc == CdcEntry

NextMPU == MpuEntry

NextDC == RngEntry \/ Interrupts \/ ScanSteps

Spec == Init /\ [][Next]_vars
SpecROS == Init /\ [][NextROS]_vars
SpecBLE == Init /\ [][NextBLE]_vars
SpecDC == Init /\ [][NextDC]_vars
SpecBoard == Init /\ [][NextBoard]_vars
SpecMPU == Init /\ [][NextMPU]_vars
SpecAlarm == Init /\ [][NextAlarm]_vars
SpecLayout == InitLayout /\ [][NextLayout]_vars
SpecInstant == Init /\ [][NextInstant]_vars
SpecDuration == Init /\ [][NextDuration]_vars
SpecCdc == Init /\ [][NextCdc]_vars

\* ------------------------------------------------------------------ claims
\* A step that invokes an entry point
Invoked == ops' = ops + 1
BleEnters(c) ==
    \/ c.verb = "ble_command" /\ c.num \in 0..6
    \/ c.verb = "ble_allow" /\ c.num \in GapNums \cup {49, 50}
    \/ c.verb = "ble_subscribe" /\ c.num = 0
RosEnters(c) ==
    \/ c.verb = "ros_allow" /\ c.num = 0
    \/ c.verb = "ros_allocate_grant"
NoMemFor(c, p) == alive[p] /\ ~granted[c][p] /\ memFree[p] < GrantSize(c)
SyscallUnchanged == UNCHANGED <<procVars, panicked, rosVars, bleVars>>

\* C1: at most one enter closure of a capsule runs on a process at any
\* instant; an enter attempted on a grant whose closure is still running
\* fails with the contention error, its closure is not run, and the handler
\* that attempted it goes on (no deadlock).
C1_ExclusiveEnter ==
    /\ \A c \in Capsules, p \in Procs : active[c][p] <= 1
    /\ nested.wasActive => nested.res = "AlreadyInUse" /\ raa.inner # nested.p
    /\ (pc = "raa" /\ ~panicked) => ENABLED BleSteps

C1_Witness ==
    /\ pc = "raa" /\ nested.wasActive /\ nested.res = "AlreadyInUse"
    /\ raa.outer = nested.p /\ active["ble"][nested.p] = 1

\* C2: every buffer of a process is held by exactly one of the ROS grant
\* and the process; after a successful allow the grant holds the buffer
\* passed in and the caller holds the one that was held before.
Holders(p, b) ==
    (IF granted["ros"][p] /\ mem_region[p] = b THEN 1 ELSE 0)
    + (IF b \in userBufs[p] THEN 1 ELSE 0)

C2_AllowIsExchange ==
    /\ \A p \in Procs, b \in BufIds :
          Holders(p, b) = IF b = 0 /\ ~granted["ros"][p] THEN 0 ELSE 1
    /\ (call.verb = "ros_allow" /\ ret.code = "SUCCESS") =>
          /\ mem_region[call.p] = lastStored[call.p]
          /\ ret.buf \in userBufs[call.p]
          /\ ret.buf # mem_region[call.p]

C2_Witness ==
    /\ call.verb = "ros_allow" /\ ret.code = "SUCCESS" /\ ret.buf # 0
    /\ mem_region[call.p] # 0

\* C3: a successful allow returns the buffer the previous successful allow
\* of that process stored (the default buffer for the first), and the
\* process's buffers stay the same set: none lost, none twice.
C3_AllowReturnsPrevious ==
    [][\A p \in Procs :
         (Invoked /\ call'.verb = "ros_allow" /\ call'.p = p /\ ret'.code = "SUCCESS")
         => /\ ret'.buf = lastStored[p]
            /\ userBufs'[p] \cup {mem_region'[p]} = BufIds
            /\ ret'.buf \notin {mem_region'[p]}]_vars

C3_Witness ==
    /\ call.verb = "ros_allow" /\ ret.code = "SUCCESS" /\ ret.buf # 0
    /\ \E i \in 1..BufLen(ret.buf) : bufData[call.p][ret.buf][i] # 0

\* C6: an entry point whose Grant enter fails returns an error value and
\* does not panic the kernel.
C6_EnterFailureIsValue ==
    ret.enter \in {"NoSuchApp", "OutOfMemory", "AlreadyInUse"} =>
        /\ ~panicked
        /\ ret.code \in {"ENOMEM", "EBUSY", "EINVAL", "NoSuchApp", "OutOfMemory",
                         "AlreadyInUse"}

\* C7: with no free memory for the grant, command, allow, subscribe and
\* allocate_grant return the out-of-memory error, the closure is not run,
\* and the state of the process and of the capsule is unchanged.
C7_OutOfMemory ==
    [][\A p \in Procs :
         /\ (Invoked /\ call'.p = p /\ BleEnters(call') /\ NoMemFor("ble", p))
            => (ret'.enter = "OutOfMemory" /\ ret'.code = "ENOMEM" /\ SyscallUnchanged)
         /\ (Invoked /\ call'.p = p /\ RosEnters(call') /\ NoMemFor("ros", p))
            => /\ ret'.enter = "OutOfMemory"
               /\ ret'.code = IF call'.verb = "ros_allow" THEN "ENOMEM" ELSE "OutOfMemory"
               /\ SyscallUnchanged]_vars

C7_Witness ==
    /\ ret.enter = "OutOfMemory" /\ ret.code = "ENOMEM" /\ call.verb = "ble_command"
    /\ ~granted["ble"][call.p] /\ app[call.p] = DefaultApp

\* C8: once command 0 of a process returned SUCCESS and until a stop
\* command of it does, its start commands 0 and 5 return EBUSY and leave
\* its driver state as it was.
C8_StartWhileStartedIsBusy ==
    [][\A p \in Procs :
         (Invoked /\ started[p] /\ call'.verb = "ble_command" /\ call'.p = p
          /\ call'.num \in {0, 5})
         => (ret'.code = "EBUSY" /\ app'[p] = app[p] /\ pc' = "idle"
             /\ alarm' = alarm)]_vars

C8_Witness ==
    /\ call.verb = "ble_command" /\ call.num \in {0, 5} /\ ret.code = "EBUSY"
    /\ started[call.p] /\ app[call.p].process_status = "Advertising"

\* C9: the configuration commands 2, 3 and 4 of a process whose status is
\* Advertising or Scanning return EBUSY and change none of its state.
C9_ConfigWhileActiveIsBusy ==
    [][\A p \in Procs :
         (Invoked /\ call'.verb = "ble_command" /\ call'.p = p /\ call'.num \in {2, 3, 4}
          /\ granted["ble"][p] /\ app[p].process_status \in {"Advertising", "Scanning"})
         => (ret'.code = "EBUSY" /\ app'[p] = app[p])]_vars

\* C10: a command, allow or subscribe with a number the capsule does not
\* support, and a syscall for a driver number the board does not register,
\* is answered with the failure code, enters no grant and changes nothing.
Unsupported(c) ==
    \/ c.verb = "ble_command" /\ c.num \notin 0..6
    \/ c.verb = "ble_allow" /\ c.num \notin GapNums \cup {49, 50}
    \/ c.verb = "ble_subscribe" /\ c.num # 0
    \/ c.verb = "ros_allow" /\ c.num # 0
    \/ c.verb = "ros_command" /\ c.num # 0
Unregistered(c) ==
    c.verb \in {"command", "allow", "subscribe"} /\ c.num \notin {0, 1}

C10_UnsupportedIsFailure ==
    [][/\ (Invoked /\ Unsupported(call'))
          => (ret'.code = "ENOSUPPORT" /\ ret'.enter = "None" /\ SyscallUnchanged)
       /\ (Invoked /\ Unregistered(call'))
          => (ret'.code = "NODEVICE" /\ ret'.enter = "None" /\ SyscallUnchanged)]_vars

C10_Witness ==
    /\ call.verb = "ros_allow" /\ call.num = 1 /\ ret.code = "ENOSUPPORT"
    /\ granted["ros"][call.p]

\* C4: in a scan pass every slot pending when the pass starts has its
\* client called exactly once by the end of the pass, no client is called
\* twice, a slot the pass finds not pending is not called, and the step
\* that starts a call has cleared the slot's flag.
C4_ScanPass ==
    /\ [](\A h \in Slots :
            /\ fired[h] <= 1
            /\ calling = h => (scan.active /\ fired[h] = 0 /\ h \notin scan.todo))
    /\ [][/\ (calling = 0 /\ calling' # 0)
             => (dcPending[calling'] /\ ~dcPending'[calling'])
          /\ \A h \in Slots :
                /\ fired'[h] = fired[h] + 1 => (calling = h /\ calling' = 0)
                /\ (h \in scan.todo /\ h \notin scan'.todo /\ ~dcPending[h])
                   => (calling' = 0 /\ fired'[h] = fired[h])
          /\ (scan.active /\ ~scan'.active)
             => \A h \in scan.start : fired[h] = 1]_vars

C4_Witness ==
    /\ scan.active /\ scan.todo = {} /\ calling = 0
    /\ Cardinality(scan.start) >= 2
    /\ \A h \in scan.start : fired[h] = 1

\* C5: when VirtIORng's call gets More from the RNG client and another
\* used buffer is queued, its slot is pending when the call returns, the
\* client is not called again in that pass, and the next pass calls it.
C5_RearmInsideCall ==
    /\ [](\A h \in rearmed :
            scan.active => (fired[h] = 1 /\ h \notin scan.todo /\ calling # h))
    /\ [][/\ (calling = RngHandle /\ calling' = 0 /\ ~panicked'
              /\ cont' = "More" /\ Len(vq.used) >= 2)
             => (dcPending'[RngHandle] /\ RngHandle \in rearmed')
          /\ (scan.active /\ ~scan'.active)
             => \A h \in owed : fired[h] = 1]_vars

C5_Witness ==
    /\ scan.active /\ RngHandle \in owed /\ fired[RngHandle] = 1
    /\ cont = "More"

\* C11: whatever the length of the buffer a process passes to allow 0x32,
\* that allow and the later commands of the process return a code: no
\* entry point of the BLE driver panics.
C11_ShortBufferNeverPanics ==
    call.verb \in {"ble_allow", "ble_command", "ble_subscribe"} =>
        (~panicked /\ ret.code # "PANIC")

\* C12: cancel with no request outstanding returns Ok and changes neither
\* callback_pending, buffer_capacity, the queue's buffers nor the enabling
\* of its callbacks; a second cancel right after a first changes nothing.
C12_CancelIdempotent ==
    (~rng.callback_pending \/ rngLast.op = "cancel") =>
        LET w == rng_cancel(World)
        IN  /\ w.res = "Ok" /\ ~w.panic
            /\ w.rng = rng /\ w.vq = vq /\ w.pend = dcPending

C12_Witness ==
    /\ rngLast.op = "cancel" /\ rngLast.res = "Ok" /\ ~rngLast.pending
    /\ rng.buffer_capacity > 0 /\ Len(vq.used) > 0


\* C13: a process fault is handled for the faulting process alone: the step
\* in which a process faults never panics the kernel and leaves every other
\* process as schedulable as it was.
C13_FaultStaysInProcess ==
    [][\A p \in Procs :
          ProcessFault(p) =>
              /\ ~panicked'
              /\ \A q \in Procs \ {p} : alive'[q] = alive[q]]_vars

\* C14: an allow of the ROS driver that fails, for its allow number or
\* because the grant cannot be entered, returns the buffer it was passed
\* with the error, and the grant and the process hold the buffers they held.
C14_FailedAllowReturnsBuffer ==
    [][\A p \in Procs, w \in {0, 1}, b \in BufIds :
          (allow_shared(p, w, b) /\ ret'.code # "SUCCESS") =>
              /\ ret'.buf = b
              /\ mem_region' = mem_region
              /\ userBufs' = userBufs]_vars

C14_Witness ==
    /\ call.verb = "ros_allow" /\ call.num = 0
    /\ ret.enter = "OutOfMemory" /\ ret.code = "ENOMEM"
    /\ ret.buf \in userBufs[call.p] /\ ret.buf # 0

\* C15: with the no-op MPU every create_region returns a region, whatever
\* its arguments, and no operation of the MPU enables protection or installs
\* a region: the memory map stays unrestricted.
C15_NoMpuUnrestricted ==
    /\ mpuLast.op = "create_region" => mpuLast.res # None
    /\ ~mpuEnabled
    /\ \A n \in RegionNums : mpuRegions[n] = None

C15_Witness ==
    /\ mpuLast.op = "create_region"
    /\ mpuLast.args.len = 0 /\ mpuLast.args.access = "NoAccess"
    /\ mpuLast.args.region_num = MaxRegionNum
    /\ mpuLast.res = Some(Region_empty(0))

\* C16: two distinct processes for which command 6 has generated an
\* advertising address have different addresses.
C16_AddressesDiffer ==
    \A p \in Procs, q \in Procs :
        (/\ p # q
         /\ app[p].advertising_address # None /\ app[p].advertisement_buf # None
         /\ app[q].advertising_address # None /\ app[q].advertisement_buf # None)
        => app[p].advertising_address # app[q].advertising_address

\* C17: once command 1 has returned SUCCESS for a process, a firing of the
\* alarm starts no transmission or reception for it until a start command of
\* that process returns SUCCESS: every process a firing transmits for is one
\* whose last start has not been followed by a stop.
C17_NoRadioAfterStop ==
    call.verb = "fired" => \A p \in sender.tx : started[p]

C19_IntervalIsClampedData ==
    [][\A p \in Procs, d \in DataFor(3), t \in NowFor(3), r \in RadioCodes :
          (ble_command(3, d, p, t, r) /\ ret'.code = "SUCCESS")
          => app'[p].advertisement_interval_ms = Max(20, Min(10240, d))]_vars

\* Byte k (0 the least significant) of a value of up to 64 bits whose upper
\* 32 bits are zero.
ByteOf(a, k) ==
    IF k = 0 THEN a[2] % 256 ELSE IF k = 1 THEN (a[2] \div 256) % 256
    ELSE IF k = 2 THEN a[1] % 256 ELSE IF k = 3 THEN (a[1] \div 256) % 256
    ELSE 0

\* C20: update_values(P, n) leaves the length L of P's allowed buffer as it
\* is and writes into it the count in bytes 0..4 iff L >= 4, n in bytes 4..8
\* iff L >= 8 and the time in bytes 8..16 iff L >= 16, each little-endian;
\* every other byte of that buffer and every other buffer keep their values.
C20_VersionOneLayout ==
    [][\A p \in Procs, n \in PendingVals, t \in NowVals :
          (update_values(p, n, t) /\ ret'.code = "SUCCESS") =>
              LET b == mem_region[p]
                  old == bufData[p][b]
                  new == bufData'[p][b]
                  L == Len(old)
              IN /\ Len(new) = L
                 /\ \A i \in 1..L :
                       new[i] = IF L >= 4 /\ i <= 4 THEN ByteOf(count, i - 1)
                                ELSE IF L >= 8 /\ i > 4 /\ i <= 8
                                     THEN ByteOf(U32Of(n), i - 5)
                                ELSE IF L >= 16 /\ i > 8 /\ i <= 16
                                     THEN ByteOf(t, i - 9)
                                ELSE old[i]
                 /\ \A q \in Procs, c \in BufIds :
                       (q # p \/ c # b) => bufData'[q][c] = bufData[q][c]]_vars

C20_Witness ==
    /\ call.verb = "ros_update_values" /\ ret.code = "SUCCESS"
    /\ LET buf == bufData[call.p][mem_region[call.p]]
       IN /\ Len(buf) = 12
          /\ buf[1] = 4 /\ buf[4] = 1 /\ buf[5] = 2 /\ buf[9] = 170

\* The value of a u32 below 2^31 as a number.
NumOf(a) == a[1] * Half + a[2]

\* C21: for a 32 kHz clock and every raw tick value whose microseconds fit
\* in 32 bits, converting the ticks to an Instant and back gives a value
\* less than 10 ticks away from the one converted.
C21_NearRoundTrip ==
    tm.op = "to_alarm_time" =>
        /\ tm.ticks # None
        /\ NumOf(tm.raw) - NumOf(tm.ticks[1]) < 10
        /\ NumOf(tm.ticks[1]) - NumOf(tm.raw) < 10

C21_Witness ==
    /\ tm.op = "to_alarm_time" /\ tm.raw = U32Of(3120)
    /\ tm.instant = Some(U32Of(95214)) /\ tm.ticks = Some(U32Of(3119))

\* C22: from_alarm_time yields an Instant for every 32-bit raw tick value,
\* the microseconds taken modulo 2^32 when they exceed 32 bits: it never
\* fails.
C22_InstantWraps ==
    tm.op = "from_alarm_time" =>
        /\ ~panicked
        /\ LET w == DivSmall(MulMillion(W64Of(tm.raw)), Frequency)
           IN tm.instant = Some(<<w[2], w[1]>>)

\* C23: the constructors of Duration represent the amount exactly, with no
\* 32-bit overflow: whole_secs of from_secs(s) is s and whole_millis of
\* from_millis(m) is m, for every 16-bit s and m.
C23_DurationExact ==
    /\ ~dur.overflow
    /\ (dur.ctor = "from_secs" /\ dur.op = "whole_secs") => dur.whole = U32Of(dur.arg)
    /\ (dur.ctor = "from_millis" /\ dur.op = "whole_millis") => dur.whole = U32Of(dur.arg)

\* C24: transmit_buffer while a TX buffer is held returns EBUSY, and with
\* tx_len over the length of the buffer ESIZE; both hand the same buffer
\* back and leave tx_len, tx_remaining, tx_offset and the held buffer as
\* they were.
C24_TransmitRejects ==
    [][\A b \in TxBufs, n \in TxLens :
          (transmit_buffer(b, n) /\ (cdc.tx_buffer # None \/ n > TxBufLen(b))) =>
              /\ cdcHist'.code = IF cdc.tx_buffer # None THEN "EBUSY" ELSE "ESIZE"
              /\ cdcHist'.back = Some(b)
              /\ cdc' = cdc]_vars

C24_Witness ==
    /\ cdcHist.op = "transmit_buffer" /\ cdcHist.code = "EBUSY"
    /\ cdcHist.back = Some(2) /\ cdc.tx_buffer = Some(1)
    /\ cdc.tx_offset = PacketLen /\ cdc.tx_remaining > 0

RECURSIVE SumOf(_)
SumOf(q) == IF q = <<>> THEN 0 ELSE Head(q) + SumOf(Tail(q))

\* C25: after an accepted transmit_buffer(buf, n) made with a TX client set,
\* the packets of the bulk IN endpoint carry buf[0..n] in order, in chunks
\* of 1 to 64 bytes; once packet_in has answered Delay the chunks total n
\* and transmitted_buffer was called exactly once, with (buf, n, SUCCESS).
C25_TransmitsAll ==
    (cdcHist.buf # 0 /\ cdcHist.client) =>
        /\ Len(cdcHist.sent) <= cdcHist.n
        /\ \A i \in 1..Len(cdcHist.sent) : cdcHist.sent[i] = TxByte(cdcHist.buf, i)
        /\ \A k \in 1..Len(cdcHist.chunks) : cdcHist.chunks[k] \in 1..PacketLen
        /\ SumOf(cdcHist.chunks) = Len(cdcHist.sent)
        /\ cdcHist.callbacks \in {<<>>, <<<<cdcHist.buf, cdcHist.n, "SUCCESS">>>>}
        /\ (cdcHist.callbacks = <<>>) = (cdc.tx_buffer # None)
        /\ cdc.tx_buffer # None => /\ cdc.tx_buffer = Some(cdcHist.buf)
                                   /\ cdc.tx_offset = Len(cdcHist.sent)
        /\ cdc.tx_buffer = None => Len(cdcHist.sent) = cdcHist.n

C25_Witness ==
    /\ cdcHist.buf = 1 /\ cdcHist.client /\ cdcHist.n = MaxTxBufLen
    /\ cdcHist.op = "packet_in" /\ cdcHist.code = "Delay"
    /\ Len(cdcHist.chunks) = 3
    /\ cdcHist.callbacks = <<<<1, MaxTxBufLen, "SUCCESS">>>>

\* C26: reset_active_alarm is never running while an App grant is entered by
\* the handler that called it: while it iterates, no grant of the driver is
\* active but the one its own iteration has entered.
C26_RaaOutsideGrants ==
    pc = "raa" =>
        /\ raa.outer = 0
        /\ \A p \in Procs : active["ble"][p] = (IF raa.inner = p THEN 1 ELSE 0)

\* The processes whose App has an enabled expiration.
Armed == {p \in Procs : alive[p] /\ granted["ble"][p] /\ app[p].alarm_data.expiration # None}

\* C27: when reset_active_alarm finishes and some App has an enabled
\* expiration, the alarm is set to the expiration of an App whose wrapping
\* distance from now is the smallest of all of them.
C27_AlarmIsNearest ==
    [][(RaaFinish /\ Armed # {}) =>
          \E p \in Armed :
              /\ alarm' = app[p].alarm_data.expiration
              /\ \A q \in Armed :
                    ~U32Lt(wrapping_sub(app[q].alarm_data.expiration[1], raa.now),
                           wrapping_sub(app[p].alarm_data.expiration[1], raa.now))]_vars

\* The processes whose timer has expired at `now` while the radio is busy
\* with another process.
Delayed(now) ==
    {p \in Armed : Expired(app[p], now) /\ busy # 0 /\ busy # p}

\* C28: a firing of the alarm starts no radio operation for an App whose
\* timer has expired while the radio is busy with another process, and
\* re-arms it: its expiration becomes now plus its advertising interval plus
\* a jitter of 0 to 9 ms, in ticks.
C28_BusyDelays ==
    [][(BLE_fired /\ ~panicked') =>
          \A p \in Delayed(alarm[1]) :
              /\ p \notin sender'.tx
              /\ app'[p].alarm_data.t0 = alarm[1]
              /\ app'[p].alarm_data.expiration # None
              /\ \E jitter \in 0..9 :
                    app'[p].alarm_data.expiration[1] =
                        wrapping_add(alarm[1],
                            U32Of(((app[p].advertisement_interval_ms + jitter)
                                   * Frequency) \div 1000))]_vars

C28_Witness ==
    /\ call.verb = "fired" /\ pc = "raa" /\ raa.i = 1 /\ ~panicked
    /\ \E p \in Armed :
          /\ busy # 0 /\ busy # p /\ p \notin sender.tx
          /\ app[p].alarm_data.t0 = raa.now
          /\ ~Expired(app[p], raa.now)

\* C29: provide_buffer rejects a buffer shorter than 4 bytes with INVAL and
\* a buffer offered to a full queue with NOMEM; both hand the same buffer
\* back and leave buffer_capacity and the queue as they were, and no other
\* error is returned.
C29_ProvideHandsBack ==
    [][\A len \in BufLens :
          provide_buffer(len) =>
              /\ (len < 4) = (rngLast'.res = "INVAL")
              /\ (len >= 4 /\ ~QueueHasRoom(vq)) = (rngLast'.res = "NOMEM")
              /\ rngLast'.res \in {"INVAL", "NOMEM", "Ok"}
              /\ rngLast'.res # "Ok" =>
                    /\ rngLast'.back = Some(len)
                    /\ rng'.buffer_capacity = rng.buffer_capacity
                    /\ vq' = vq
                    /\ ~panicked']_vars

C29_Witness ==
    /\ rngLast.op = "provide_buffer" /\ rngLast.res = "NOMEM"
    /\ rngLast.back = Some(8) /\ Len(vq.avail) + Len(vq.used) = MaxQueue
    /\ rng.buffer_capacity >= 16

\* C30: whenever the deferred call of the RNG is pending or being
\* delivered, the virtqueue holds a used descriptor chain, so that call
\* never finds the queue empty.
C30_CallFindsUsed ==
    (dcPending[RngHandle] \/ calling = RngHandle) => Len(vq.used) > 0

C30_Witness ==
    /\ calling = RngHandle /\ Len(vq.used) > 0 /\ ~panicked
    /\ rngLast.op = "cancel" /\ ~rng.callback_pending /\ fired[RngHandle] = 0

====
